---- MODULE Spec2Model ----
(***************************************************************************)
(* Daily Task Organizer (daily_task_organizer_streamlit_app.py): the       *)
(* file-backed store of per-day records, the cumulative history ledger,    *)
(* the carry-over lookup, the range summary and the text reports.          *)
(*                                                                         *)
(* Text is modelled as sequences of characters (one-character strings;     *)
(* "CHECK" stands for U+2705 and "CROSS" for U+274C), so that writing and  *)
(* parsing a record are two different computations.                        *)
(***************************************************************************)
EXTENDS Integers, Sequences, FiniteSets, TLC

VARIABLES files, ledger, reports, last, written, appended, saved, reported

vars == <<files, ledger, reports, last, written, appended, saved, reported>>

----------------------------------------------------------------------------
(* Bounds of the model *)

\* most tasks in one day record (completed and incomplete together)
MaxTasks == 2

\* most rows the ledger grows to
MaxRows == 3

\* most blocks appended to one report file
MaxBlocks == 2

\* most lines of new tasks typed in one session
MaxNew == 1

\* most Save Day sessions
MaxSessions == 2

----------------------------------------------------------------------------
(* Characters and strings *)

\* what str.strip() removes
Whitespace == {" ", "\n", "\t", "\r"}

\* the characters of file names, in code point order
CodeOrder == <<"-", ".", "0", "1", "2", "3", "4", "5", "6", "7", "8", "9", "_",
               "a", "b", "c", "d", "e", "f", "g", "h", "i", "j", "k", "l", "m",
               "n", "o", "p", "q", "r", "s", "t", "u", "v", "w", "x", "y", "z">>

CodeRank(ch) == CHOOSE k \in 1..Len(CodeOrder) : CodeOrder[k] = ch

\* Python's < on str: the first differing character decides, a proper prefix is less
RECURSIVE StrLessFrom(_, _, _)
StrLessFrom(a, b, k) ==
    IF k > Len(b) THEN FALSE
    ELSE IF k > Len(a) THEN TRUE
    ELSE IF a[k] = b[k] THEN StrLessFrom(a, b, k + 1)
    ELSE CodeRank(a[k]) < CodeRank(b[k])

StrLess(a, b) == StrLessFrom(a, b, 1)

\* faulty variant: the whole line compared
StartsWithWhole(s, p) == s = p

\* s.startswith(p)
StartsWith(s, p) == Len(s) >= Len(p) /\ SubSeq(s, 1, Len(p)) = p

RECURSIVE LStrip(_)
LStrip(s) == IF s # <<>> /\ Head(s) \in Whitespace THEN LStrip(Tail(s)) ELSE s

RECURSIVE RStrip(_)
RStrip(s) ==
    IF s # <<>> /\ s[Len(s)] \in Whitespace THEN RStrip(SubSeq(s, 1, Len(s) - 1)) ELSE s

\* str.strip()
Strip(s) == RStrip(LStrip(s))

\* f.readlines(): the lines of a text from position k on, each with its terminator
RECURSIVE ReadLinesFrom(_, _)
ReadLinesFrom(s, k) ==
    IF k > Len(s) THEN <<>>
    ELSE LET ends == {j \in k..Len(s) : s[j] = "\n"}
         IN  IF ends = {} THEN <<SubSeq(s, k, Len(s))>>
             ELSE LET e == CHOOSE j \in ends : \A i \in ends : j <= i
                  IN  <<SubSeq(s, k, e)>> \o ReadLinesFrom(s, e + 1)

ReadLines(s) == ReadLinesFrom(s, 1)

RECURSIVE Concat(_)
Concat(ss) == IF ss = <<>> THEN <<>> ELSE Head(ss) \o Concat(Tail(ss))

----------------------------------------------------------------------------
(* Dates *)

Day1 == [y |-> 2024, m |-> 9, d |-> 10]
Day2 == [y |-> 2024, m |-> 10, d |-> 9]
Day3 == [y |-> 2024, m |-> 10, d |-> 10]

\* the days a record is written for, and the days a session or a lookup is about
RecordDays == {Day1, Day2}
Days == {Day1, Day2, Day3}

\* date < date
DateLess(a, b) ==
    \/ a.y < b.y
    \/ a.y = b.y /\ a.m < b.m
    \/ a.y = b.y /\ a.m = b.m /\ a.d < b.d

DateLeq(a, b) == a = b \/ DateLess(a, b)

Digits == <<"0", "1", "2", "3", "4", "5", "6", "7", "8", "9">>

DigitChar(n) == Digits[n + 1]

Pad2(n) == <<DigitChar((n \div 10) % 10), DigitChar(n % 10)>>

Pad4(n) == <<DigitChar((n \div 1000) % 10), DigitChar((n \div 100) % 10)>> \o Pad2(n)

RECURSIVE Decimal(_)
Decimal(n) == IF n < 10 THEN <<DigitChar(n)>> ELSE Append(Decimal(n \div 10), DigitChar(n % 10))

\* faulty variant: no zero padding ("%Y-%-m-%-d")
DateStrUnpadded(d) == Decimal(d.y) \o <<"-">> \o Decimal(d.m) \o <<"-">> \o Decimal(d.d)

\* d.strftime("%Y-%m-%d")
DateStr(d) == Pad4(d.y) \o <<"-">> \o Pad2(d.m) \o <<"-">> \o Pad2(d.d)

\* the file name of a day's record inside DATA_DIR
DailyFilePath(d) == DateStr(d) \o <<".", "t", "x", "t">>

WEEKLY_REPORT == <<"w", "e", "e", "k", "l", "y", "_", "r", "e", "p", "o", "r", "t",
                   ".", "t", "x", "t">>
MONTHLY_REPORT == <<"m", "o", "n", "t", "h", "l", "y", "_", "r", "e", "p", "o", "r", "t",
                    ".", "t", "x", "t">>

----------------------------------------------------------------------------
(* Task names and day records *)

TaskA == <<"a">>
TaskBullet == <<"-", " ", "b">>
TaskNone == <<"N", "o", "n", "e">>
TaskNA == <<"N", "A">>

\* names a record is written with: non-empty, trimmed, one line
StoreNames == {TaskBullet, TaskNone}

RECURSIVE ListsUpTo(_, _)
ListsUpTo(S, n) ==
    IF n = 0 THEN {<<>>}
    ELSE LET shorter == ListsUpTo(S, n - 1)
         IN  shorter \cup {Append(l, x) : l \in {t \in shorter : Len(t) = n - 1}, x \in S}

\* the (completed, incomplete) pairs of at most n tasks over the names S
RecordsUpTo(S, n) ==
    {p \in ListsUpTo(S, n) \X ListsUpTo(S, n) : Len(p[1]) + Len(p[2]) <= n}

----------------------------------------------------------------------------
(* The directory DATA_DIR: a map from the names of the files that exist to  *)
(* their text                                                               *)

NoFiles == [n \in {} |-> <<>>]

\* the map fs with key k set to v (created when absent)
MapPut(fs, k, v) == [n \in DOMAIN fs \cup {k} |-> IF n = k THEN v ELSE fs[n]]

----------------------------------------------------------------------------
(* Per-day record files *)

HeaderCompleted == <<"CHECK", " ", "C", "o", "m", "p", "l", "e", "t", "e", "d", " ",
                     "T", "a", "s", "k", "s">>
HeaderIncomplete == <<"CROSS", " ", "I", "n", "c", "o", "m", "p", "l", "e", "t", "e", " ",
                      "T", "a", "s", "k", "s">>
Bullet == <<"-", " ">>
NoneLine == <<"N", "o", "n", "e", "\n">>

RECURSIVE BulletLines(_)
BulletLines(tasks) ==
    IF tasks = <<>> THEN <<>>
    ELSE Bullet \o Head(tasks) \o <<"\n">> \o BulletLines(Tail(tasks))

\* the text write_daily_file puts into the day's file
DailyText(d, completed, incomplete) ==
    <<"=", "=", "=", "=", "=", " ">> \o DateStr(d) \o <<" ", "=", "=", "=", "=", "=", "\n">>
    \o HeaderCompleted \o <<":", "\n">>
    \o (IF completed # <<>> THEN BulletLines(completed) ELSE NoneLine)
    \o HeaderIncomplete \o <<":", "\n">>
    \o (IF incomplete # <<>> THEN BulletLines(incomplete) ELSE NoneLine)

\* faulty variant: the file opened in append mode
WriteDailyFileAppending(fs, d, completed, incomplete) ==
    LET path == DailyFilePath(d)
        old == IF path \in DOMAIN fs THEN fs[path] ELSE <<>>
    IN  MapPut(fs, path, old \o DailyText(d, completed, incomplete))

\* write_daily_file: open(path, "w") truncates, then the template is written
WriteDailyFile(fs, d, completed, incomplete) ==
    MapPut(fs, DailyFilePath(d), DailyText(d, completed, incomplete))

\* faulty variant: ln.lstrip("- ") in place of ln[2:]
RECURSIVE LStripBullet(_)
LStripBullet(s) ==
    IF s # <<>> /\ Head(s) \in {"-", " "} THEN LStripBullet(Tail(s)) ELSE s

RECURSIVE ParseLinesGreedy(_, _, _, _, _)
ParseLinesGreedy(lines, k, section, completed, incomplete) ==
    IF k > Len(lines) THEN <<completed, incomplete>>
    ELSE LET ln == lines[k]
         IN  IF StartsWith(ln, HeaderCompleted)
             THEN ParseLinesGreedy(lines, k + 1, "completed", completed, incomplete)
             ELSE IF StartsWith(ln, HeaderIncomplete)
             THEN ParseLinesGreedy(lines, k + 1, "incomplete", completed, incomplete)
             ELSE IF StartsWith(ln, Bullet)
             THEN LET task == Strip(LStripBullet(ln))
                  IN  IF section = "completed"
                      THEN ParseLinesGreedy(lines, k + 1, section, Append(completed, task), incomplete)
                      ELSE IF section = "incomplete"
                      THEN ParseLinesGreedy(lines, k + 1, section, completed, Append(incomplete, task))
                      ELSE ParseLinesGreedy(lines, k + 1, section, completed, incomplete)
             ELSE ParseLinesGreedy(lines, k + 1, section, completed, incomplete)

\* the loop of parse_txt_day over the stripped lines
RECURSIVE ParseLines(_, _, _, _, _)
ParseLines(lines, k, section, completed, incomplete) ==
    IF k > Len(lines) THEN <<completed, incomplete>>
    ELSE LET ln == lines[k]
         IN  IF StartsWith(ln, HeaderCompleted)
             THEN ParseLines(lines, k + 1, "completed", completed, incomplete)
             ELSE IF StartsWith(ln, HeaderIncomplete)
             THEN ParseLines(lines, k + 1, "incomplete", completed, incomplete)
             ELSE IF StartsWith(ln, Bullet)
             THEN LET task == Strip(SubSeq(ln, 3, Len(ln)))
                  IN  IF section = "completed"
                      THEN ParseLines(lines, k + 1, section, Append(completed, task), incomplete)
                      ELSE IF section = "incomplete"
                      THEN ParseLines(lines, k + 1, section, completed, Append(incomplete, task))
                      ELSE ParseLines(lines, k + 1, section, completed, incomplete)
             ELSE ParseLines(lines, k + 1, section, completed, incomplete)

StrippedLines(text) == LET lns == ReadLines(text) IN [k \in 1..Len(lns) |-> Strip(lns[k])]

\* parse_txt_day(path) -> (completed, incomplete)
ParseTxtDay(fs, path) ==
    IF path \notin DOMAIN fs THEN <<<<>>, <<>>>>
    ELSE ParseLines(StrippedLines(fs[path]), 1, "none", <<>>, <<>>)

\* sorted(names)
RECURSIVE Sorted(_)
Sorted(S) ==
    IF S = {} THEN <<>>
    ELSE LET least == CHOOSE x \in S : \A z \in S \ {x} : StrLess(x, z)
         IN  <<least>> \o Sorted(S \ {least})

\* get_latest_task_file(before_date): the path, or <<>> for None
GetLatestTaskFile(fs, reps, before_date) ==
    LET globbed == Sorted(DOMAIN fs \cup DOMAIN reps)
        noReports == SelectSeq(globbed, LAMBDA f : f \notin {WEEKLY_REPORT, MONTHLY_REPORT})
        cutoff == DateStr(before_date)
        earlier == SelectSeq(noReports, LAMBDA f : StrLess(f, cutoff \o <<".", "t", "x", "t">>))
    IN  IF earlier = <<>> THEN <<>> ELSE earlier[Len(earlier)]

\* faulty variant: the completed list of the latest record is carried over
LoadCarryOverCompleted(fs, reps, today) ==
    LET latest_path == GetLatestTaskFile(fs, reps, today)
    IN  IF latest_path = <<>> THEN <<>> ELSE ParseTxtDay(fs, latest_path)[1]

\* load_carry_over_tasks(today)
LoadCarryOverTasks(fs, reps, today) ==
    LET latest_path == GetLatestTaskFile(fs, reps, today)
    IN  IF latest_path = <<>> THEN <<>> ELSE ParseTxtDay(fs, latest_path)[2]

----------------------------------------------------------------------------
(* State shared by the specifications                                       *)
(*   files     DATA_DIR/*.txt day records: file name -> text                *)
(*   ledger    DATA_DIR/history.csv                                         *)
(*   reports   the two report files: file name -> text blocks               *)
(*   last      the operation that ran last, with its arguments and result   *)
(*   written   history: per day, the lists its file was last written with   *)
(*   appended  history: every row handed to append_to_history, in order     *)
(*   saved     history of the Save Day sessions                             *)
(*   reported  history: per report file, the blocks appended to it          *)

NoLedger == [exists |-> FALSE]

\* incomplete, completed: the tasks ever saved as such; carried: every session so
\* far had carry-over on; forward: every session so far opened a day later than
\* every day that had a record
NoSessions ==
    [incomplete |-> {}, completed |-> {}, carried |-> TRUE, forward |-> TRUE, count |-> 0]

InitCommon ==
    /\ files = NoFiles
    /\ ledger = NoLedger
    /\ reports = NoFiles
    /\ last = [op |-> "init"]
    /\ written = NoFiles
    /\ appended = <<>>
    /\ saved = NoSessions
    /\ reported = NoFiles

----------------------------------------------------------------------------
(* The record store: write_daily_file, parse_txt_day, load_carry_over_tasks *)

\* write_daily_file(d, completed, incomplete)
WriteDaily(d, completed, incomplete) ==
    /\ files' = WriteDailyFile(files, d, completed, incomplete)
    /\ written' = MapPut(written, d, [completed |-> completed, incomplete |-> incomplete,
                                      style |-> "app"])
    /\ last' = [op |-> "write", day |-> d, completed |-> completed, incomplete |-> incomplete,
                replaced |-> /\ d \in DOMAIN written
                             /\ <<written[d].completed, written[d].incomplete>>
                                    # <<completed, incomplete>>]
    /\ UNCHANGED <<ledger, reports, appended, saved, reported>>

\* parse_txt_day(daily_file_path(d))
ParseDay(d) ==
    /\ LET r == ParseTxtDay(files, DailyFilePath(d))
       IN  last' = [op |-> "parse", day |-> d, completed |-> r[1], incomplete |-> r[2]]
    /\ UNCHANGED <<files, ledger, reports, written, appended, saved, reported>>

\* load_carry_over_tasks(today)
CarryOver(today) ==
    /\ last' = [op |-> "carry", day |-> today,
                incomplete |-> LoadCarryOverTasks(files, reports, today)]
    /\ UNCHANGED <<files, ledger, reports, written, appended, saved, reported>>

\* the records written in the store's specifications
StoreRecords == RecordsUpTo(StoreNames, MaxTasks)

StoreNext ==
    \/ \E d \in RecordDays, r \in StoreRecords : WriteDaily(d, r[1], r[2])
    \/ \E d \in RecordDays : ParseDay(d)
    \/ \E today \in Days : CarryOver(today)

SpecStore == InitCommon /\ [][StoreNext]_vars

----------------------------------------------------------------------------
(* Claims about the record store, under SpecStore *)

\* C1: right after write_daily_file(day, completed, incomplete), parse_txt_day on
\* that day's file returns exactly (completed, incomplete): the same task names
\* in the same order, duplicates and empty lists included.
C1_RoundTrip ==
    last.op = "write" =>
        ParseTxtDay(files, DailyFilePath(last.day)) = <<last.completed, last.incomplete>>

\* a record with two different completed tasks, the first starting with "- ", was written
C1_Witness ==
    /\ last.op = "write"
    /\ Len(last.completed) = 2
    /\ last.completed[1] = TaskBullet
    /\ last.completed[2] = TaskNone
    /\ last.incomplete = <<>>

\* the day of the latest record strictly before today, from the history of writes
PriorDays(today) == {d \in DOMAIN written : DateLess(d, today)}

LatestPrior(today) == CHOOSE d \in PriorDays(today) : \A e \in PriorDays(today) : DateLeq(e, d)

ExpectedCarryOver(today) ==
    IF PriorDays(today) = {} THEN <<>> ELSE written[LatestPrior(today)].incomplete

\* C2: load_carry_over_tasks(today) is the incomplete list, in order, of the record
\* with the greatest date strictly before today (never the record of today or of a
\* later day), and the empty list when no record is dated before today.
C2_CarryOverNearestEarlier ==
    /\ \A today \in Days : LoadCarryOverTasks(files, reports, today) = ExpectedCarryOver(today)
    /\ last.op = "carry" => last.incomplete = ExpectedCarryOver(last.day)

\* both record days are stored with different incomplete lists, and the lookup for
\* the day after them returned the later record's list
C2_Witness ==
    /\ last.op = "carry"
    /\ last.day = Day3
    /\ DOMAIN written = {Day1, Day2}
    /\ written[Day1].incomplete # <<>>
    /\ written[Day2].incomplete # written[Day1].incomplete
    /\ Len(last.incomplete) = 2
    /\ last.incomplete = written[Day2].incomplete

\* C5: reading the record of a day returns exactly the lists of the most recent
\* write_daily_file for that day, whatever was written for it before and whatever
\* was written for other days since; a day never written has no record.
C5_LastWriteWins ==
    /\ \A d \in DOMAIN written :
          ParseTxtDay(files, DailyFilePath(d)) = <<written[d].completed, written[d].incomplete>>
    /\ \A d \in Days \ DOMAIN written : DailyFilePath(d) \notin DOMAIN files
    /\ last.op = "parse" /\ last.day \in DOMAIN written =>
          <<last.completed, last.incomplete>>
              = <<written[last.day].completed, written[last.day].incomplete>>

\* a day's record was overwritten with other lists while another day has a record
C5_Witness ==
    /\ last.op = "write"
    /\ last.replaced
    /\ DOMAIN written = {Day1, Day2}

----------------------------------------------------------------------------
(* Record files that were not written by write_daily_file: files "written   *)
(* by earlier CLI versions" (docstring of parse_txt_day), found in DATA_DIR *)

PlainCompleted == <<"C", "o", "m", "p", "l", "e", "t", "e", "d", " ", "T", "a", "s", "k", "s">>
PlainIncomplete == <<"I", "n", "c", "o", "m", "p", "l", "e", "t", "e", " ", "T", "a", "s", "k", "s">>
OtherCompleted == <<"D", "o", "n", "e">>
OtherIncomplete == <<"T", "o", "d", "o">>

\* "emoji": the emoji-prefixed headers, without date banner or None placeholder;
\* "plain": the same header words without the emoji; "other": different headers
LegacyStyles == {"emoji", "plain", "other"}

LegacyText(style, completed, incomplete) ==
    LET hc == CASE style = "emoji" -> HeaderCompleted
                [] style = "plain" -> PlainCompleted
                [] OTHER -> OtherCompleted
        hi == CASE style = "emoji" -> HeaderIncomplete
                [] style = "plain" -> PlainIncomplete
                [] OTHER -> OtherIncomplete
    IN  hc \o <<":", "\n">> \o BulletLines(completed)
        \o hi \o <<":", "\n">> \o BulletLines(incomplete)

\* the days a legacy file is found for
LegacyDays == {Day1}

\* a legacy file for day d is in DATA_DIR
PlaceLegacy(d, style, completed, incomplete) ==
    /\ files' = MapPut(files, DailyFilePath(d), LegacyText(style, completed, incomplete))
    /\ written' = MapPut(written, d, [completed |-> completed, incomplete |-> incomplete,
                                      style |-> style])
    /\ last' = [op |-> "legacy", day |-> d]
    /\ UNCHANGED <<ledger, reports, appended, saved, reported>>

LegacyNext ==
    \/ \E d \in LegacyDays, st \in LegacyStyles, r \in StoreRecords :
          PlaceLegacy(d, st, r[1], r[2])
    \/ \E d \in RecordDays : ParseDay(d)
    \/ \E today \in Days : CarryOver(today)

SpecLegacy == InitCommon /\ [][LegacyNext]_vars

\* C7 as stated: a legacy file with the emoji-prefixed headers, or with the
\* equivalent plain-text headers, parses to the tasks listed under its headers;
\* a file whose headers differ entirely parses to two empty lists.
C7_PlainHeadersParse ==
    \A d \in DOMAIN written :
        LET r == ParseTxtDay(files, DailyFilePath(d))
        IN  /\ written[d].style \in {"emoji", "plain"} =>
                  r = <<written[d].completed, written[d].incomplete>>
            /\ written[d].style = "other" => r = <<<<>>, <<>>>>

\* C7 amended: only the emoji-prefixed headers open a section. A legacy file with
\* them parses to the tasks listed under its headers; a file with the plain-text
\* headers, or with different headers, parses to two empty lists.
C7_EmojiHeadersOnly ==
    /\ \A d \in DOMAIN written :
          LET r == ParseTxtDay(files, DailyFilePath(d))
          IN  /\ written[d].style = "emoji" =>
                    r = <<written[d].completed, written[d].incomplete>>
              /\ written[d].style \in {"plain", "other"} => r = <<<<>>, <<>>>>
    /\ last.op = "parse" /\ last.day \in DOMAIN written =>
          <<last.completed, last.incomplete>> = ParseTxtDay(files, DailyFilePath(last.day))

\* a legacy file with emoji headers and a task in each list was parsed
C7_Witness ==
    /\ last.op = "parse"
    /\ last.day \in DOMAIN written
    /\ written[last.day].style = "emoji"
    /\ last.completed # <<>>
    /\ last.incomplete # <<>>

----------------------------------------------------------------------------
(* The ledger history.csv, as pandas reads and writes it.  The file is its  *)
(* header and its rows of cells (text); a frame holds values, where a cell  *)
(* that read_csv takes for a missing value is NaN.                          *)

Completed == <<"c", "o", "m", "p", "l", "e", "t", "e", "d">>
Incomplete == <<"i", "n", "c", "o", "m", "p", "l", "e", "t", "e">>

HistoryColumns == <<"date", "task", "status">>

\* the missing value of a frame
NaN == <<"NaN">>

\* the texts pandas.read_csv reads as missing (its default na_values)
NaValues ==
    {<<>>,
     <<"#", "N", "/", "A">>,
     <<"#", "N", "/", "A", " ", "N", "/", "A">>,
     <<"#", "N", "A">>,
     <<"-", "1", ".", "#", "I", "N", "D">>,
     <<"-", "1", ".", "#", "Q", "N", "A", "N">>,
     <<"-", "N", "a", "N">>,
     <<"-", "n", "a", "n">>,
     <<"1", ".", "#", "I", "N", "D">>,
     <<"1", ".", "#", "Q", "N", "A", "N">>,
     <<"<", "N", "A", ">">>,
     <<"N", "/", "A">>,
     <<"N", "A">>,
     <<"N", "U", "L", "L">>,
     <<"N", "a", "N">>,
     <<"n", "/", "a">>,
     <<"n", "a", "n">>,
     <<"n", "u", "l", "l">>}

\* read_csv on one cell
ReadCell(cell) == IF cell \in NaValues THEN NaN ELSE cell

\* to_csv on one value (na_rep is the empty text)
WriteCell(v) == IF v = NaN THEN <<>> ELSE v

\* the cells of a file as read_csv gives them
ReadRows(rows) == [k \in 1..Len(rows) |-> [j \in 1..Len(rows[k]) |-> ReadCell(rows[k][j])]]

\* the cells of a frame as to_csv writes them
WriteRows(rows) == [k \in 1..Len(rows) |-> [j \in 1..Len(rows[k]) |-> WriteCell(rows[k][j])]]

Raised == [raised |-> TRUE]

\* pd.read_csv(HISTORY_CSV): a frame, or EmptyDataError for a file without a header
ReadCsv(lg) ==
    IF lg.header = <<>> THEN Raised
    ELSE [raised |-> FALSE, columns |-> lg.header, rows |-> ReadRows(lg.rows)]

\* df.to_csv(HISTORY_CSV, index=False)
ToCsv(columns, rows) == [exists |-> TRUE, header |-> columns, rows |-> WriteRows(rows)]

\* ensure_history_csv()
EnsureHistoryCsv(lg) == IF ~lg.exists THEN ToCsv(HistoryColumns, <<>>) ELSE lg

\* the rows append_to_history builds for a day
NewRows(d, completed, incomplete) ==
    [k \in 1..Len(completed) |-> <<DateStr(d), completed[k], Completed>>]
    \o [k \in 1..Len(incomplete) |-> <<DateStr(d), incomplete[k], Incomplete>>]

\* append_to_history(d, completed, incomplete): the ledger file afterwards (when
\* read_csv raises, the exception leaves the file as it is)
AppendToHistory(lg, d, completed, incomplete) ==
    LET ensured == EnsureHistoryCsv(lg)
        rows == NewRows(d, completed, incomplete)
        df_old == ReadCsv(ensured)
    IN  IF rows = <<>> THEN ensured
        ELSE IF df_old.raised THEN ensured
        ELSE ToCsv(df_old.columns, df_old.rows \o rows)

DigitSet == {Digits[k] : k \in 1..10}

DigitValues == [ch \in DigitSet |-> (CHOOSE k \in 1..10 : Digits[k] = ch) - 1]

Number2(a, b) == 10 * DigitValues[a] + DigitValues[b]

\* whether pd.to_datetime reads the text of a date cell
IsIsoDate(cell) ==
    /\ Len(cell) = 10
    /\ cell[5] = "-" /\ cell[8] = "-"
    /\ \A k \in {1, 2, 3, 4, 6, 7, 9, 10} : cell[k] \in DigitSet
    /\ Number2(cell[6], cell[7]) \in 1..12
    /\ Number2(cell[9], cell[10]) \in 1..31

\* pd.to_datetime(cell).date()
ToDate(cell) ==
    [y |-> 100 * Number2(cell[1], cell[2]) + Number2(cell[3], cell[4]),
     m |-> Number2(cell[6], cell[7]),
     d |-> Number2(cell[9], cell[10])]

\* df["date"] = pd.to_datetime(df["date"]).dt.date on the rows of a frame
CoerceDates(rows) ==
    IF \E k \in 1..Len(rows) : ~IsIsoDate(rows[k][1]) THEN Raised
    ELSE [raised |-> FALSE,
          rows |-> [k \in 1..Len(rows) |->
                       [date |-> ToDate(rows[k][1]), task |-> rows[k][2], status |-> rows[k][3]]]]

\* the body of the try block of load_history
ReadAndCoerce(lg) ==
    IF lg.header = <<>> THEN Raised ELSE CoerceDates(ReadRows(lg.rows))

\* faulty variant: no try/except around the read
LoadHistoryUnguarded(lg) == ReadAndCoerce(EnsureHistoryCsv(lg))

\* load_history(): the entries returned (the except branch returns an empty frame)
LoadHistory(lg) ==
    LET r == ReadAndCoerce(EnsureHistoryCsv(lg))
    IN  IF r.raised THEN [raised |-> FALSE, rows |-> <<>>] ELSE r

\* (sub["status"] == status).sum()
CountStatus(rows, status) == Cardinality({k \in 1..Len(rows) : rows[k].status = status})

\* faulty variant: the end of the range left out
SummarizeRangeHalfOpen(entries, start, end) ==
    LET sub == SelectSeq(entries, LAMBDA r : DateLeq(start, r.date) /\ DateLess(r.date, end))
        completed == CountStatus(sub, Completed)
        incomplete == CountStatus(sub, Incomplete)
    IN  [days_tracked |-> Cardinality({sub[k].date : k \in 1..Len(sub)}),
         completed |-> completed,
         incomplete |-> incomplete,
         total |-> completed + incomplete,
         completion_rate |-> IF completed + incomplete # 0
                             THEN [num |-> completed * 100, den |-> completed + incomplete]
                             ELSE [num |-> 0, den |-> 1]]

\* summarize_range(df, start, end); completion_rate is kept as the exact fraction
SummarizeRange(entries, start, end) ==
    LET sub == SelectSeq(entries, LAMBDA r : DateLeq(start, r.date) /\ DateLeq(r.date, end))
        completed == CountStatus(sub, Completed)
        incomplete == CountStatus(sub, Incomplete)
    IN  [days_tracked |-> Cardinality({sub[k].date : k \in 1..Len(sub)}),
         completed |-> completed,
         incomplete |-> incomplete,
         total |-> completed + incomplete,
         completion_rate |-> IF completed + incomplete # 0
                             THEN [num |-> completed * 100, den |-> completed + incomplete]
                             ELSE [num |-> 0, den |-> 1]]

----------------------------------------------------------------------------
(* The ledger's operations *)

\* names of the tasks saved to the ledger
LedgerNames == {TaskA, TaskNA}

LedgerRecords == RecordsUpTo(LedgerNames, MaxTasks)

RowCount(lg) == IF lg.exists THEN Len(lg.rows) ELSE 0

\* append_to_history(d, completed, incomplete)
AppendHistory(d, completed, incomplete) ==
    /\ RowCount(ledger) + Len(completed) + Len(incomplete) <= MaxRows
    /\ ledger' = AppendToHistory(ledger, d, completed, incomplete)
    /\ appended' = IF ReadCsv(EnsureHistoryCsv(ledger)).raised THEN appended
                   ELSE appended
                        \o [k \in 1..Len(completed) |->
                               [date |-> d, task |-> completed[k], status |-> Completed]]
                        \o [k \in 1..Len(incomplete) |->
                               [date |-> d, task |-> incomplete[k], status |-> Incomplete]]
    /\ last' = [op |-> "append", day |-> d, completed |-> completed, incomplete |-> incomplete,
                before |-> IF ledger.exists THEN ledger.rows ELSE <<>>]
    /\ UNCHANGED <<files, reports, written, saved, reported>>

\* load_history()
LoadHist ==
    /\ ledger' = EnsureHistoryCsv(ledger)
    /\ \E r \in {LoadHistory(ledger)} :
          last' = [op |-> "load", raised |-> r.raised,
                   rows |-> IF r.raised THEN <<>> ELSE r.rows,
                   absent |-> ~ledger.exists]
    /\ UNCHANGED <<files, reports, written, appended, saved, reported>>

\* summarize_range(load_history(), start, end)
Summarize(start, end) ==
    /\ ledger' = EnsureHistoryCsv(ledger)
    /\ \E entries \in {LoadHistory(ledger).rows} :
          last' = [op |-> "summarize", entries |-> entries, start |-> start, end |-> end,
                   stats |-> SummarizeRange(entries, start, end)]
    /\ UNCHANGED <<files, reports, written, appended, saved, reported>>

LedgerNext ==
    \/ \E d \in RecordDays, r \in LedgerRecords : AppendHistory(d, r[1], r[2])
    \/ LoadHist
    \/ \E start \in Days, end \in Days : Summarize(start, end)

SpecLedger == InitCommon /\ [][LedgerNext]_vars

\* C3: after append_to_history(day, completed, incomplete) the ledger is the ledger
\* before followed by one row (day, t, completed) per completed task in order and
\* then one row (day, t, incomplete) per incomplete task in order; so the ledger
\* always holds every row ever appended, unchanged and in order.
C3_AppendOnly ==
    /\ last.op = "append" =>
          ledger.rows = last.before \o NewRows(last.day, last.completed, last.incomplete)
    /\ ledger.exists =>
          ledger.rows = [k \in 1..Len(appended) |->
                            <<DateStr(appended[k].date), appended[k].task, appended[k].status>>]

\* the rows of the entries within the closed range
InRange(entries, start, end) ==
    {k \in 1..Len(entries) : DateLeq(start, entries[k].date) /\ DateLeq(entries[k].date, end)}

\* C4: summarize_range counts over the closed range [start, end]: completed and
\* incomplete are the numbers of rows in range with that status, total is their
\* sum, days_tracked the number of distinct dates among the rows in range; with no
\* row in range every field is 0, completion_rate included.
C4_SummaryCounts ==
    last.op = "summarize" =>
        LET rows == InRange(last.entries, last.start, last.end)
            st == last.stats
        IN  /\ st.completed = Cardinality({k \in rows : last.entries[k].status = Completed})
            /\ st.incomplete = Cardinality({k \in rows : last.entries[k].status = Incomplete})
            /\ st.total = st.completed + st.incomplete
            /\ st.days_tracked = Cardinality({last.entries[k].date : k \in rows})
            /\ rows = {} =>
                  /\ st.completed = 0 /\ st.incomplete = 0 /\ st.total = 0
                  /\ st.days_tracked = 0 /\ st.completion_rate.num = 0

\* three entries on the two end days of the range were summarised: two completed,
\* one incomplete, two days tracked
C4_Witness ==
    /\ last.op = "summarize"
    /\ last.start = Day1 /\ last.end = Day2
    /\ Len(last.entries) = 3
    /\ {last.entries[k].date : k \in 1..3} = {Day1, Day2}
    /\ last.stats.completed = 2 /\ last.stats.incomplete = 1
    /\ last.stats.days_tracked = 2

----------------------------------------------------------------------------
(* The ledger file changed from outside the program *)

\* the file is deleted
RemoveLedger ==
    /\ ledger.exists
    /\ ledger' = NoLedger
    /\ appended' = <<>>
    /\ last' = [op |-> "edit"]
    /\ UNCHANGED <<files, reports, written, saved, reported>>

\* the file is truncated to nothing
TruncateLedger ==
    /\ ledger.exists
    /\ ledger' = [exists |-> TRUE, header |-> <<>>, rows |-> <<>>]
    /\ appended' = <<>>
    /\ last' = [op |-> "edit"]
    /\ UNCHANGED <<files, reports, written, saved, reported>>

BadDate == <<"b", "a", "d">>

\* a row whose date is no date is added by hand
AddBadRow ==
    /\ ledger.exists
    /\ ledger.header = HistoryColumns
    /\ Len(ledger.rows) < MaxRows
    /\ ledger' = [ledger EXCEPT !.rows = Append(@, <<BadDate, TaskA, Completed>>)]
    /\ last' = [op |-> "edit"]
    /\ UNCHANGED <<files, reports, written, appended, saved, reported>>

EditedNext ==
    \/ \E d \in RecordDays, r \in LedgerRecords : AppendHistory(d, r[1], r[2])
    \/ LoadHist
    \/ RemoveLedger
    \/ TruncateLedger
    \/ AddBadRow

SpecLedgerEdited == InitCommon /\ [][EditedNext]_vars

\* the content of the ledger file does not parse
Unreadable(lg) ==
    \/ lg.header = <<>>
    \/ \E k \in 1..Len(lg.rows) : ~IsIsoDate(lg.rows[k][1])

\* C6: load_history returns a result for every state of the ledger file and never
\* raises: the empty sequence when the content fails to parse, one entry per row
\* when it parses, and an absent ledger is created with its header and no rows.
C6_LoadFailsSoft ==
    last.op = "load" =>
        /\ ~last.raised
        /\ ledger.exists
        /\ Unreadable(ledger) => last.rows = <<>>
        /\ ~Unreadable(ledger) => Len(last.rows) = Len(ledger.rows)
        /\ last.absent => ledger = ToCsv(HistoryColumns, <<>>) /\ last.rows = <<>>

\* a ledger with saved rows and a row that does not parse was loaded
C6_Witness ==
    /\ last.op = "load"
    /\ Unreadable(ledger)
    /\ Len(ledger.rows) >= 2
    /\ last.rows = <<>>

----------------------------------------------------------------------------
(* Text reports: save_text_report.  "CHART" stands for U+1F4CA, "GRAPH"   *)
(* for U+1F4C8 and "ARROW" for U+2192.                                      *)

TitleWeekly ==
    <<"W", "e", "e", "k", "l", "y", " ", "R", "e", "p", "o", "r", "t">>
TitleMonthly ==
    <<"M", "o", "n", "t", "h", "l", "y", " ", "R", "e", "p", "o", "r", "t">>
NoTasksLine ==
    <<"N", "o", " ", "t", "a", "s", "k", "s", " ", "r", "e", "c", "o", "r", "d", "e",
      "d", " ", "i", "n", " ", "t", "h", "i", "s", " ", "p", "e", "r", "i", "o", "d",
      ".", "\n">>
DaysTrackedLabel ==
    <<"D", "a", "y", "s", " ", "t", "r", "a", "c", "k", "e", "d", ":", " ">>
TotalCompletedLabel ==
    <<"CHECK", " ", "T", "o", "t", "a", "l", " ", "C", "o", "m", "p", "l", "e", "t",
      "e", "d", ":", " ">>
TotalIncompleteLabel ==
    <<"CROSS", " ", "T", "o", "t", "a", "l", " ", "I", "n", "c", "o", "m", "p", "l",
      "e", "t", "e", ":", " ">>
CompletionRateLabel ==
    <<"GRAPH", " ", "C", "o", "m", "p", "l", "e", "t", "i", "o", "n", " ", "R", "a",
      "t", "e", ":", " ">>

\* str(n) for a count
CountText(n) == Decimal(n)

\* f"{rate:.2f}" for the rate num/den: hundredths, rounded
RateText(rate) ==
    LET hundredths == (2 * 100 * rate.num + rate.den) \div (2 * rate.den)
    IN  Decimal(hundredths \div 100) \o <<".">> \o Pad2(hundredths % 100)

\* "".join(lines) followed by the separator line
ReportText(title, stats, start, end) ==
    <<"\n", "CHART", " ">> \o title \o <<" ", "(">> \o DateStr(start)
    \o <<" ", "ARROW", " ">> \o DateStr(end) \o <<")", " ", "CHART", "\n">>
    \o (IF stats.total = 0 THEN NoTasksLine
        ELSE DaysTrackedLabel \o CountText(stats.days_tracked) \o <<"\n">>
             \o TotalCompletedLabel \o CountText(stats.completed) \o <<"\n">>
             \o TotalIncompleteLabel \o CountText(stats.incomplete) \o <<"\n">>
             \o CompletionRateLabel \o RateText(stats.completion_rate) \o <<"%", "\n">>)
    \o <<"\n">> \o [k \in 1..40 |-> "="] \o <<"\n">>

\* faulty variant: the report file opened with "w"
SaveTextReportTruncating(reps, path, title, stats, start, end) ==
    MapPut(reps, path, ReportText(title, stats, start, end))

\* save_text_report: open(path, "a") keeps what the file holds and writes at its end
SaveTextReport(reps, path, title, stats, start, end) ==
    LET old == IF path \in DOMAIN reps THEN reps[path] ELSE <<>>
    IN  MapPut(reps, path, old \o ReportText(title, stats, start, end))

\* the entries the reported statistics are computed from
SampleEntries ==
    {<<>>,
     <<[date |-> Day1, task |-> TaskA, status |-> Completed],
       [date |-> Day1, task |-> TaskBullet, status |-> Incomplete],
       [date |-> Day2, task |-> TaskNone, status |-> Completed]>>}

ReportCalls ==
    {[path |-> WEEKLY_REPORT, title |-> TitleWeekly],
     [path |-> MONTHLY_REPORT, title |-> TitleMonthly]}

\* a report button: save_text_report(path, title, stats, start, end)
SaveReport(path, title, stats, start, end) ==
    /\ path \in DOMAIN reported => Len(reported[path]) < MaxBlocks
    /\ reports' = SaveTextReport(reports, path, title, stats, start, end)
    /\ reported' = MapPut(reported, path,
                          (IF path \in DOMAIN reported THEN reported[path] ELSE <<>>)
                          \o <<ReportText(title, stats, start, end)>>)
    /\ last' = [op |-> "report", path |-> path, before |-> reports,
                block |-> ReportText(title, stats, start, end)]
    /\ UNCHANGED <<files, ledger, written, appended, saved>>

ReportNext ==
    \E call \in ReportCalls, entries \in SampleEntries, start \in {Day1, Day2} :
        SaveReport(call.path, call.title, SummarizeRange(entries, start, Day3), start, Day3)

SpecReport == InitCommon /\ [][ReportNext]_vars

\* C8: after save_text_report(path, ...) the file holds what it held before
\* followed by the new block and its separator line, and the other report file is
\* as it was; so each report file always holds every block written to it, in call
\* order, with nothing truncated or changed.
C8_ReportsAdditive ==
    /\ last.op = "report" =>
          /\ reports[last.path]
                = (IF last.path \in DOMAIN last.before THEN last.before[last.path] ELSE <<>>)
                  \o last.block
          /\ \A p \in DOMAIN reports \ {last.path} :
                p \in DOMAIN last.before /\ reports[p] = last.before[p]
    /\ DOMAIN reports = DOMAIN reported
    /\ \A p \in DOMAIN reported : reports[p] = Concat(reported[p])

\* a second, different block was appended to a report file that held one
C8_Witness ==
    /\ last.op = "report"
    /\ last.path \in DOMAIN last.before
    /\ last.before[last.path] # <<>>
    /\ Len(reported[last.path]) = 2
    /\ reported[last.path][1] # reported[last.path][2]

----------------------------------------------------------------------------
(* A day session: the carry-over, the checklist and the Save Day button     *)

SessionNames == {TaskA, TaskNA}

\* the sidebar checkbox "Auto-carry incomplete from previous day"
CarryOverSettings == BOOLEAN

Range(seq) == {seq[k] : k \in 1..Len(seq)}

\* the keys of completed_flags, in the order of their first insertion
RECURSIVE DictKeys(_, _)
DictKeys(tasks, seen) ==
    IF tasks = <<>> THEN <<>>
    ELSE IF Head(tasks) \in seen THEN DictKeys(Tail(tasks), seen)
    ELSE <<Head(tasks)>> \o DictKeys(Tail(tasks), seen \cup {Head(tasks)})

\* the script run in which Save Day is clicked: carry-over, new tasks, the
\* checkboxes ticked, write_daily_file and append_to_history
SaveDay(selected_date, show_carry_over, new_tasks, checked) ==
    /\ saved.count < MaxSessions
    /\ \E carry_over \in {IF show_carry_over
                          THEN LoadCarryOverTasks(files, reports, selected_date) ELSE <<>>} :
       \E all_tasks \in {carry_over \o new_tasks} :
       \E keys \in {DictKeys(all_tasks, {})} :
       \E completed \in {SelectSeq(keys, LAMBDA t : t \in checked)} :
       \E incomplete \in {SelectSeq(keys, LAMBDA t : t \notin checked)} :
          /\ all_tasks # <<>>
          /\ checked \subseteq Range(keys)
          /\ files' = WriteDailyFile(files, selected_date, completed, incomplete)
          /\ ledger' = AppendToHistory(ledger, selected_date, completed, incomplete)
          /\ written' = MapPut(written, selected_date,
                               [completed |-> completed, incomplete |-> incomplete,
                                style |-> "app"])
          /\ appended' = appended
                         \o [k \in 1..Len(completed) |->
                                [date |-> selected_date, task |-> completed[k],
                                 status |-> Completed]]
                         \o [k \in 1..Len(incomplete) |->
                                [date |-> selected_date, task |-> incomplete[k],
                                 status |-> Incomplete]]
          /\ saved' = [incomplete |-> saved.incomplete \cup Range(incomplete),
                       completed |-> saved.completed \cup Range(completed),
                       carried |-> saved.carried /\ show_carry_over,
                       forward |-> /\ saved.forward
                                   /\ \A d \in DOMAIN written : DateLess(d, selected_date),
                       count |-> saved.count + 1]
          /\ last' = [op |-> "save", day |-> selected_date, completed |-> completed,
                      incomplete |-> incomplete, carry |-> carry_over]
          /\ UNCHANGED <<reports, reported>>

SessionNext ==
    \E d \in Days, show \in CarryOverSettings, new \in ListsUpTo(SessionNames, MaxNew),
       checked \in SUBSET SessionNames :
        SaveDay(d, show, new, checked)

SpecSession == InitCommon /\ [][SessionNext]_vars

\* the tasks saved as incomplete at least once and never saved as completed
Pending == saved.incomplete \ saved.completed

RecordedDays == {d \in Days : DailyFilePath(d) \in DOMAIN files}

LatestRecordedDay == CHOOSE d \in RecordedDays : \A e \in RecordedDays : DateLeq(e, d)

\* every pending task is in the incomplete list of the most recent dated record,
\* and in load_carry_over_tasks of every later day
PendingCarried ==
    RecordedDays # {} =>
        /\ Pending \subseteq Range(ParseTxtDay(files, DailyFilePath(LatestRecordedDay))[2])
        /\ \A later \in Days :
              DateLess(LatestRecordedDay, later) =>
                  Pending \subseteq Range(LoadCarryOverTasks(files, reports, later))

\* C9 as stated: with carry-over enabled in every session, whatever days the
\* sessions open and in whatever order, every task saved as incomplete and never
\* saved as completed is in the incomplete list of the most recent dated record and
\* is carried over to any later day.
C9_NeverLost == saved.carried => PendingCarried

\* C9 amended: with carry-over enabled in every session, and every session opening
\* a day later than every day that already has a record, every task saved as
\* incomplete and never saved as completed is in the incomplete list of the most
\* recent dated record and is carried over to any later day.
C9_NeverLostForward == saved.carried /\ saved.forward => PendingCarried

\* a second session on a later day carried a task over, added one and left both
\* unfinished
C9_Witness ==
    /\ last.op = "save"
    /\ saved.carried
    /\ saved.forward
    /\ saved.count = 2
    /\ last.carry # <<>>
    /\ Cardinality(Pending) = 2
    /\ last.day = LatestRecordedDay
    /\ Len(last.incomplete) = 2

\* the rows of the ledger file that carry the date of day d
DayRows(d) == SelectSeq(ledger.rows, LAMBDA row : row[1] = DateStr(d))

\* C10: for every day that has a record, each task of the record has its ledger
\* row (day, task, status), and the last len(completed)+len(incomplete) ledger rows
\* carrying that date are exactly the record's tasks in order.
C10_RecordsMatchLedger ==
    \A d \in RecordedDays :
        LET rec == ParseTxtDay(files, DailyFilePath(d))
            rows == NewRows(d, rec[1], rec[2])
            dated == DayRows(d)
        IN  /\ ledger.exists
            /\ \A k \in 1..Len(rows) : \E j \in 1..Len(ledger.rows) : ledger.rows[j] = rows[k]
            /\ Len(dated) >= Len(rows)
            /\ SubSeq(dated, Len(dated) - Len(rows) + 1, Len(dated)) = rows

====
